---- MODULE Spec2Model ----
(***************************************************************************)
(* State-machine model of abcd_adr_waveform_exporter.cpp: the frame scan   *)
(* of export_single_channel / export_all_channels, the packet decoder      *)
(* read_waveform_packet and the CSV writer write_samples_csv.              *)
(*                                                                         *)
(* Bytes are the integers 0..255.  The input file is a sequence of bytes,  *)
(* an output file is the sequence of characters written to it.  Indices    *)
(* of the C++ code are 0-based; sequences here are 1-based, so buffer[pos] *)
(* of the code is buffer[pos + 1] here, while pos, inPos and the sizes     *)
(* keep the code's values.                                                 *)
(*                                                                         *)
(* TLC's integers are 32-bit signed.  A uint32_t is therefore kept as its  *)
(* top bit and its low 31 bits, and comparisons that the code makes in     *)
(* 64-bit size_t arithmetic are rearranged so that no intermediate value   *)
(* leaves the 32-bit range; each such place says so.                       *)
(***************************************************************************)
EXTENDS Integers, Sequences, FiniteSets, TLC

SP == 32            \* ' ', the topic separator

Max(S) == CHOOSE x \in S : \A y \in S : y <= x
Min2(a, b) == IF a <= b THEN a ELSE b

RECURSIVE Concat(_)
Concat(ss) == IF ss = << >> THEN << >> ELSE Head(ss) \o Concat(Tail(ss))

-----------------------------------------------------------------------------
(* std::string helpers used by the frame scan                              *)

\* std::string::npos, as the model keeps it.
NPOS == -1

\* A faulty variant: the first "_s" is taken, as topic.find would
find_s(t) ==
    LET I == {i \in 1..(Len(t) - 1) : t[i] = 95 /\ t[i + 1] = 115}
    IN  IF I = {} THEN NPOS ELSE (CHOOSE i \in I : \A j \in I : i <= j) - 1

\* topic.rfind("_s"): 0-based index of the last "_s", NPOS when absent.
rfind_s(t) ==
    LET I == {i \in 1..(Len(t) - 1) : t[i] = 95 /\ t[i + 1] = 115}
    IN  IF I = {} THEN NPOS ELSE Max(I) - 1

\* A faulty variant: the size text is taken one character too late
substrLate(t, p) == SubSeq(t, p + 2, Len(t))

\* topic.substr(p): the characters from 0-based index p to the end.
substr(t, p) == SubSeq(t, p + 1, Len(t))

\* "data_abcd_waveforms"
WfTopic == <<100, 97, 116, 97, 95, 97, 98, 99, 100, 95,
             119, 97, 118, 101, 102, 111, 114, 109, 115>>

\* A faulty variant: the topic name is looked for anywhere in the topic
find_anywhere(t) ==
    \E k \in 0..(Len(t) - Len(WfTopic)) : SubSeq(t, k + 1, k + Len(WfTopic)) = WfTopic

\* topic.find("data_abcd_waveforms") == 0
find_at_0(t) ==
    /\ Len(t) >= Len(WfTopic)
    /\ SubSeq(t, 1, Len(WfTopic)) = WfTopic

\* std::stoi(s): strtol base 10.  Leading isspace characters are skipped,
\* one optional sign is taken, then the longest run of digits; whatever
\* follows the digits is ignored.  No digit: std::invalid_argument.  A
\* value outside int: std::out_of_range.  The value is accumulated as a
\* negative number so that every int, INT_MIN included, stays representable.
IsSpace(c) == c \in {9, 10, 11, 12, 13, 32}
IsDigit(c) == c >= 48 /\ c <= 57

RECURSIVE SkipSpace(_, _)
SkipSpace(s, j) ==
    IF j <= Len(s) /\ IsSpace(s[j]) THEN SkipSpace(s, j + 1) ELSE j

\* Folds the digits from index j on; neg is minus the value read so far,
\* n the number of digits read, over whether the value left the int range.
RECURSIVE StoiDigits(_, _, _, _, _)
StoiDigits(s, j, neg, n, over) ==
    IF j > Len(s) \/ ~IsDigit(s[j])
    THEN [neg |-> neg, n |-> n, over |-> over]
    ELSE LET d == s[j] - 48
             fits == neg > -214748364 \/ (neg = -214748364 /\ d <= 8)
         IN  IF over \/ ~fits
             THEN StoiDigits(s, j + 1, neg, n + 1, TRUE)
             ELSE StoiDigits(s, j + 1, neg * 10 - d, n + 1, FALSE)

stoi(s) ==
    LET j0     == SkipSpace(s, 1)
        signed == j0 <= Len(s) /\ s[j0] \in {43, 45}
        minus  == signed /\ s[j0] = 45
        j1     == IF signed THEN j0 + 1 ELSE j0
        r      == StoiDigits(s, j1, 0, 0, FALSE)
    IN  IF r.n = 0 THEN [kind |-> "invalid_argument", value |-> 0]
        ELSE IF r.over \/ (~minus /\ r.neg < -2147483647)
             THEN [kind |-> "out_of_range", value |-> 0]
        ELSE [kind |-> "ok", value |-> IF minus THEN r.neg ELSE 0 - r.neg]

-----------------------------------------------------------------------------
(* WaveformPacket and read_waveform_packet                                 *)

\* A uint32_t read from 4 little-endian bytes: top is bit 31, low the
\* other 31 bits, so the value is top * 2^31 + low.
U32(b) == [top |-> b[4] \div 128,
           low |-> b[1] + 256 * b[2] + 65536 * b[3] + 16777216 * (b[4] % 128)]

\* A uint16_t read from 2 little-endian bytes.
U16(b) == b[1] + 256 * b[2]

\* The samples loop: sample i is the uint16_t at buffer[pos + 2*i].
ReadSamples(buffer, pos, n) ==
    [i \in 1..n |-> U16(SubSeq(buffer, pos + 2 * i - 1, pos + 2 * i))]

\* The second bounds test, pos + packet.sample_count * 2 > buffer.size().
\* packet.sample_count * 2 is a uint32_t product: it wraps modulo 2^32, so
\* bit 31 of sample_count is lost and the product is 2 * low.  The sum is
\* a size_t and cannot wrap.  pos <= size holds here, so
\* pos + 2*low > size  <=>  low > (size - pos) \div 2, which is the form
\* that stays inside TLC's integers.
SamplesOverrun(pos, sc, size) == sc.low > (size - pos) \div 2

\* A faulty variant: the trim is applied only above 4 samples
TrimPaddingAbove4(samples) ==
    IF Len(samples) > 4 THEN SubSeq(samples, 1, Len(samples) - 4)
    ELSE samples

\* if (samples.size() >= 4) samples.resize(samples.size() - 4)
TrimPadding(samples) ==
    IF Len(samples) >= 4 THEN SubSeq(samples, 1, Len(samples) - 4)
    ELSE samples

\* A faulty variant: the gates_count copy does not advance pos
HeaderEndShort(pos) == pos + 8 + 1 + 4

\* The four header copies advance pos by 8, 1, 4 and 1.
HeaderEnd(pos) == pos + 8 + 1 + 4 + 1

\* A faulty variant: pos is advanced past the samples that are kept
SamplesEndTrimmed(pos, n) == pos + 2 * (IF n >= 4 THEN n - 4 ELSE n)

\* The samples loop runs sample_count times and adds 2 to pos each time.
SamplesEnd(pos, n) == pos + 2 * n

NoPacket == [timestamp |-> << >>, channel |-> 0, sample_count |-> [top |-> 0, low |-> 0],
             gates_count |-> 0, samples |-> << >>]

\* read_waveform_packet(buffer, pos, packet).  ret is "true" or "false" as
\* the code returns, or "overrun" when the code goes on to resize the
\* sample vector to 2^31 or more entries and to copy them from beyond the
\* end of buffer, which is undefined behaviour; pos is the value the
\* reference parameter holds at the return.
read_waveform_packet(buffer, pos) ==
    IF pos + 14 > Len(buffer)
    THEN [ret |-> "false", pos |-> pos, packet |-> NoPacket]
    ELSE LET hdr == [timestamp    |-> SubSeq(buffer, pos + 1, pos + 8),
                     channel      |-> buffer[pos + 9],
                     sample_count |-> U32(SubSeq(buffer, pos + 10, pos + 13)),
                     gates_count  |-> buffer[pos + 14],
                     samples      |-> << >>]
             p1  == HeaderEnd(pos)
             sc  == hdr.sample_count
         IN  IF SamplesOverrun(p1, sc, Len(buffer))
             THEN [ret |-> "false", pos |-> p1, packet |-> hdr]
             ELSE IF sc.top = 1
             THEN [ret |-> "overrun", pos |-> p1, packet |-> hdr]
             ELSE [ret |-> "true", pos |-> SamplesEnd(p1, sc.low),
                   packet |-> [hdr EXCEPT !.samples =
                       TrimPadding(ReadSamples(buffer, p1, sc.low))]]

-----------------------------------------------------------------------------
(* write_samples_csv                                                       *)

\* operator<< of an unsigned value: its decimal digits.
RECURSIVE Dec(_)
Dec(n) == IF n < 10 THEN <<48 + n>> ELSE Dec(n \div 10) \o <<48 + (n % 10)>>

RECURSIVE JoinSamples(_, _)
JoinSamples(samples, i) ==
    IF i > Len(samples) THEN << >>
    ELSE (IF i > 1 THEN <<44>> ELSE << >>) \o Dec(samples[i])
         \o JoinSamples(samples, i + 1)

\* A faulty variant: a packet without samples writes nothing, not even "\n"
write_samples_csvSkipEmpty(samples) ==
    IF samples = << >> THEN << >> ELSE JoinSamples(samples, 1) \o <<10>>

\* The characters one call appends to the file: the row and its "\n".
write_samples_csv(samples) == JoinSamples(samples, 1) \o <<10>>

-----------------------------------------------------------------------------
(* The run: export_single_channel or export_all_channels                   *)

VARIABLES
    mode,             \* "single": export_single_channel, "all": export_all_channels
    channel_id,       \* export_single_channel's parameters
    max_waveforms,
    max_per_channel,  \* export_all_channels' parameters
    exclude_channel,
    input,            \* the bytes of the input file
    inPos,            \* the number of bytes taken from `in`
    inFail,           \* `in` has failbit set
    topic,
    buffer,           \* the body of the frame being demultiplexed
    pos,
    pc,               \* "scan": at while (in.get(c)); "demux": at the body of
                      \* while (pos < buffer.size()); "done": returned after
                      \* the summary; "abort": the process was terminated
    exit,             \* how the run left its loop
    out,              \* single mode: the characters written to the CSV file
    exported,
    outputs,          \* all mode: channel -> characters written to its file
    counts,
    inOpen,           \* the input stream `in` is open
    outOpen,          \* the channels whose CSV stream is open
    frame,            \* history: the last frame whose body was read: where the
                      \* body starts in the file, its size, its topic, and how
                      \* many packets had been decoded before it
    last,             \* history: the last read_waveform_packet call
    decoded           \* history: the packets decoded so far, in order

params == <<mode, channel_id, max_waveforms, max_per_channel, exclude_channel, input>>
sinks  == <<out, exported, outputs, counts>>
streams == <<inOpen, outOpen>>
vars   == <<mode, channel_id, max_waveforms, max_per_channel, exclude_channel,
           input, inPos, inFail, topic, buffer, pos, pc, exit,
           out, exported, outputs, counts, inOpen, outOpen, frame, last, decoded>>

NoFrame == [start |-> 0, size |-> 0, topic |-> << >>, base |-> 0, seen |-> FALSE]
NoCall  == [ret |-> "none", before |-> 0, after |-> 0, size |-> 0,
            buffer |-> << >>, packet |-> NoPacket]

\* The state both functions are in when they reach their while loop: the
\* input is open and unread, and in single mode the CSV file is open.
Start(m, ch, maxw, maxpc, excl, bytes) ==
    /\ mode = m
    /\ channel_id = ch
    /\ max_waveforms = maxw
    /\ max_per_channel = maxpc
    /\ exclude_channel = excl
    /\ input = bytes
    /\ inPos = 0
    /\ inFail = FALSE
    /\ topic = << >>
    /\ buffer = << >>
    /\ pos = 0
    /\ pc = "scan"
    /\ exit = "none"
    /\ out = << >>
    /\ exported = 0
    /\ outputs = << >>
    /\ counts = << >>
    /\ inOpen = TRUE
    /\ outOpen = IF m = "single" THEN {ch} ELSE {}
    /\ frame = NoFrame
    /\ last = NoCall
    /\ decoded = << >>

\* in.get(c) succeeds: a byte is left and the stream has not failed.
CanGet == ~inFail /\ inPos < Len(input)

\* The function returns: the destructors of its stream objects close the
\* files (std::ifstream in, std::ofstream out, the map outputs).
Return ==
    /\ pc' = "done"
    /\ inOpen' = FALSE
    /\ outOpen' = {}

\* while (in.get(c)) fails: the loop ends and the summary is printed.
EndOfStream ==
    /\ pc = "scan"
    /\ ~CanGet
    /\ Return
    /\ exit' = "eof"
    /\ inFail' = TRUE
    /\ UNCHANGED <<params, inPos, topic, buffer, pos, sinks, frame, last, decoded>>

\* c != ' ': topic += c; continue
TopicChar ==
    /\ pc = "scan"
    /\ CanGet
    /\ input[inPos + 1] # SP
    /\ topic' = Append(topic, input[inPos + 1])
    /\ inPos' = inPos + 1
    /\ UNCHANGED <<params, inFail, buffer, pos, pc, exit, sinks, streams, frame, last, decoded>>

\* An exception nothing catches (main has no handler) or a fault: the
\* process is terminated where it stands.  For an uncaught exception it is
\* implementation-defined whether the stack is unwound before
\* std::terminate is called, so the stream destructors may or may not have
\* run; after a fault they have not.
Terminate(how) ==
    /\ pc' = "abort"
    /\ exit' = how
    /\ \/ UNCHANGED streams
       \/ how # "segv" /\ inOpen' = FALSE /\ outOpen' = {}

\* A faulty variant: the topic is kept when the scan resumes
NextTopicKeeps ==
    /\ topic' = topic
    /\ buffer' = << >>
    /\ pos' = 0
    /\ pc' = "scan"

\* topic.clear() and back to while (in.get(c)); buffer goes out of scope.
NextTopic ==
    /\ topic' = << >>
    /\ buffer' = << >>
    /\ pos' = 0
    /\ pc' = "scan"

\* std::vector<char> buffer(msg_size) is zero-filled; in.read stores the
\* bytes the file still holds, from offset at on, at its front.
ReadBody(at, msg_size) ==
    [i \in 1..msg_size |-> IF at + i <= Len(input) THEN input[at + i] ELSE 0]

\* A faulty variant: the result of in.read is not tested
ReadFailsNever(at, msg_size) == FALSE

\* !in.read(buffer.data(), msg_size): the file holds fewer bytes.
ReadFails(at, msg_size) == msg_size > Len(input) - at

\* c == ' ': the header is taken from topic and the body is read.
Separator ==
    /\ pc = "scan"
    /\ CanGet
    /\ input[inPos + 1] = SP
    /\ LET size_pos == rfind_s(topic)
           msg      == stoi(substr(topic, size_pos + 2))
           msg_size == msg.value
           at       == inPos + 1
       IN  IF size_pos = NPOS
           THEN /\ NextTopic
                /\ inPos' = at
                /\ UNCHANGED <<inFail, exit, frame, streams>>
           ELSE IF msg.kind # "ok"
           THEN /\ Terminate(msg.kind)                 \* std::stoi throws
                /\ inPos' = at
                /\ UNCHANGED <<inFail, topic, buffer, pos, frame>>
           ELSE IF msg_size < 0
           THEN /\ Terminate("length_error")           \* vector(size_t(msg_size)) throws
                /\ inPos' = at
                /\ UNCHANGED <<inFail, topic, buffer, pos, frame>>
           ELSE IF ReadFails(at, msg_size)
           THEN /\ NextTopic                           \* in.read fails at end of file
                /\ inPos' = Len(input)
                /\ inFail' = TRUE
                /\ UNCHANGED <<exit, frame, streams>>
           ELSE /\ inPos' = at + msg_size
                /\ frame' = [start |-> at, size |-> msg_size, topic |-> topic,
                              base |-> Len(decoded), seen |-> TRUE]
                /\ UNCHANGED <<inFail, exit, streams>>
                /\ IF find_at_0(topic) /\ 0 < msg_size
                   THEN /\ buffer' = ReadBody(at, msg_size)
                        /\ pos' = 0
                        /\ pc' = "demux"
                        /\ UNCHANGED topic
                   ELSE NextTopic
    /\ UNCHANGED <<params, sinks, last, decoded>>

\* The history of one read_waveform_packet call.
Called(r) ==
    /\ last' = [ret |-> r.ret, before |-> pos, after |-> r.pos, size |-> Len(buffer),
                buffer |-> buffer, packet |-> r.packet]
    /\ decoded' = IF r.ret = "true" THEN Append(decoded, r.packet) ELSE decoded

\* A faulty variant: the loop goes on only while more than a header is left
LoopAgainPastHeader(newpos) ==
    IF newpos + 14 < Len(buffer)
    THEN /\ pos' = newpos
         /\ UNCHANGED <<topic, buffer, pc>>
    ELSE NextTopic

\* A faulty variant: the loop test is made again with the old pos
LoopAgainStuck(newpos) ==
    IF pos < Len(buffer)
    THEN UNCHANGED <<pos, topic, buffer, pc>>
    ELSE NextTopic

\* The end of one pass of while (pos < buffer.size()) that did not leave
\* the loop: the test is made again with the new pos.
LoopAgain(newpos) ==
    IF newpos < Len(buffer)
    THEN /\ pos' = newpos
         /\ UNCHANGED <<topic, buffer, pc>>
    ELSE NextTopic

\* The sample vector is resized to 2^31 entries or more and filled from
\* beyond the end of buffer, which is undefined: the allocation of 4 GiB
\* throws std::bad_alloc, or the copy of 4 GiB from beyond a buffer of
\* msg_size bytes leaves the mapped memory and faults.  Either way the
\* process is terminated inside the call.
Overrun ==
    /\ \E how \in {"bad_alloc", "segv"} : Terminate(how)
    /\ UNCHANGED <<topic, buffer, pos>>

\* A faulty variant: the limit is tested with > in place of >=
LimitReachedLate(n) == max_waveforms > 0 /\ n > max_waveforms

\* A faulty variant: the limit is tested without max_waveforms > 0
LimitReachedNoGuard(n) == n >= max_waveforms

\* max_waveforms > 0 && exported >= max_waveforms, after exported++.
LimitReached(n) == max_waveforms > 0 /\ n >= max_waveforms

\* One pass of the inner loop of export_single_channel.
SingleDemux ==
    /\ mode = "single"
    /\ pc = "demux"
    /\ LET r == read_waveform_packet(buffer, pos)
       IN  /\ Called(r)
           /\ IF r.ret = "false"
              THEN /\ NextTopic                        \* break
                   /\ UNCHANGED <<exit, out, exported, streams>>
              ELSE IF r.ret = "overrun"
              THEN /\ Overrun
                   /\ UNCHANGED <<out, exported>>
              ELSE IF r.packet.channel = channel_id
              THEN /\ out' = out \o write_samples_csv(r.packet.samples)
                   /\ exported' = exported + 1
                   /\ IF LimitReached(exported + 1)
                      THEN /\ Return                   \* goto done
                           /\ exit' = "limit"
                           /\ pos' = r.pos
                           /\ UNCHANGED <<topic, buffer>>
                      ELSE /\ LoopAgain(r.pos)
                           /\ UNCHANGED <<exit, streams>>
              ELSE /\ LoopAgain(r.pos)
                   /\ UNCHANGED <<exit, out, exported, streams>>
    /\ UNCHANGED <<params, inPos, inFail, outputs, counts, frame>>

\* std::map operator[] on a missing key, followed by the assignment.
Put(m, k, v) == [x \in (DOMAIN m) \cup {k} |-> IF x = k THEN v ELSE m[x]]

\* A faulty variant: the exclusion test is missing
ExcludedNever(ch) == FALSE

\* ch == exclude_channel
Excluded(ch) == ch = exclude_channel

\* A faulty variant: the excluded channel ends the body, as break would
ContinueAsBreak(newpos) == NextTopic

\* continue, for a packet of the excluded channel: back to the loop test.
Continue(newpos) == LoopAgain(newpos)

\* A faulty variant: the cap is tested with <= in place of <
UnderCapLate(n) == max_per_channel <= 0 \/ n <= max_per_channel

\* max_per_channel <= 0 || counts[ch] < max_per_channel
UnderCap(n) == max_per_channel <= 0 \/ n < max_per_channel

\* One pass of the inner loop of export_all_channels.
AllDemux ==
    /\ mode = "all"
    /\ pc = "demux"
    /\ LET r  == read_waveform_packet(buffer, pos)
           ch == r.packet.channel
           o1 == IF ch \in DOMAIN outputs THEN outputs ELSE Put(outputs, ch, << >>)
           c1 == IF ch \in DOMAIN outputs THEN counts ELSE Put(counts, ch, 0)
       IN  /\ Called(r)
           /\ IF r.ret = "false"
              THEN /\ NextTopic                        \* break
                   /\ UNCHANGED <<exit, outputs, counts, streams>>
              ELSE IF r.ret = "overrun"
              THEN /\ Overrun
                   /\ UNCHANGED <<outputs, counts>>
              ELSE IF Excluded(ch)
              THEN /\ Continue(r.pos)
                   /\ UNCHANGED <<exit, outputs, counts, streams>>
              ELSE /\ IF UnderCap(c1[ch])
                      THEN /\ outputs' = Put(o1, ch, o1[ch] \o write_samples_csv(r.packet.samples))
                           /\ counts' = Put(c1, ch, c1[ch] + 1)
                      ELSE /\ outputs' = o1
                           /\ counts' = c1
                   /\ outOpen' = outOpen \cup {ch}     \* outputs[ch].open(name)
                   /\ LoopAgain(r.pos)
                   /\ UNCHANGED <<exit, inOpen>>
    /\ UNCHANGED <<params, inPos, inFail, out, exported, frame>>

Next ==
    \/ TopicChar
    \/ Separator
    \/ EndOfStream
    \/ SingleDemux
    \/ AllDemux

-----------------------------------------------------------------------------
(* Input files                                                             *)

MaxSegs    == 2     \* segments in an input file
MaxLimit   == 2     \* largest waveform limit tried
MaxPkts    == 2     \* packets in a body of the decoder runs
MaxSamples == 6     \* largest sample_count of a complete packet there

Le16(v) == <<v % 256, v \div 256>>
Le32(v) == <<v % 256, (v \div 256) % 256, (v \div 65536) % 256, v \div 16777216>>

\* The header text "<name>_s<n> ".
Header(name, n) == name \o <<95, 115>> \o Dec(n) \o <<SP>>
Frame(name, body) == Header(name, Len(body)) \o body

\* The wire form of a packet.  The timestamp bytes spell " _s5" so that a
\* body read as header text would be noticed.
Stamp == <<32, 95, 115, 53, 0, 0, 0, 0>>
PacketHeader(ch, scBytes) == Stamp \o <<ch>> \o scBytes \o <<7>>
SampleBytes(vals) == Concat([i \in 1..Len(vals) |-> Le16(vals[i])])
Wire(ch, vals) == PacketHeader(ch, Le32(Len(vals))) \o SampleBytes(vals)

\* Sample i of a test packet; from the second on the high byte is not 0.
Ramp(ch, n) == [i \in 1..n |-> 256 * (i - 1) + 10 * i + ch]

PA == Wire(1, Ramp(1, 6))       \* channel 1, 6 samples: a row of 2 values
PB == Wire(2, Ramp(2, 2))       \* channel 2, 2 samples: no trim
PC == Wire(1, Ramp(1, 4))       \* channel 1, 4 samples: an empty row

\* A header that declares 3 samples, followed by one sample only.
Cut == PacketHeader(1, Le32(3)) \o Le16(9)
\* A header whose sample_count is 2^31: 2 * sample_count is 0 modulo 2^32.
Wrap == PacketHeader(1, <<0, 0, 0, 128>>)
\* A header whose sample_count is 2^31 + 1, followed by one sample.
Wrap1 == PacketHeader(2, <<1, 0, 0, 128>>) \o Le16(9)

Status == <<115, 116, 97, 116, 117, 115>>                      \* "status"
Junk   == <<106, 117, 110, 107>>                               \* "junk"

Segments == {
    Frame(WfTopic, PA),
    Frame(WfTopic, PB \o PA),
    Frame(WfTopic, PC \o PA \o PB),
    Frame(WfTopic, PB \o Cut \o PA),           \* a truncated packet, then bytes of a full one
    Frame(WfTopic, PA \o <<1, 2, 3, 4, 5>>),   \* fewer than 14 bytes left
    Frame(WfTopic, PB \o Wrap),
    Frame(Status, PB),                         \* another topic, a body that would decode
    Junk \o <<SP>>,                            \* a token without "_s"
    Header(WfTopic, Len(PA) + 3) \o PA         \* the file ends inside the body
}

RECURSIVE Files(_)
Files(n) ==
    IF n = 0 THEN {<< >>}
    ELSE LET shorter == Files(n - 1)
         IN  shorter \cup {f \o s : f \in shorter, s \in Segments}

Channels == {1, 2}
Limits   == {-1} \cup (1..MaxLimit)
Caps     == {-1, 0} \cup (1..MaxLimit)       \* 0 and -1: no cap

Init ==
    \E bytes \in Files(MaxSegs) :
        \/ \E ch \in Channels, m \in Limits :
               Start("single", ch, m, 0, 0, bytes)
        \/ \E m \in Caps, x \in {-1} \cup Channels :
               Start("all", 0, 0, m, x, bytes)

Spec == Init /\ [][Next]_vars

-----------------------------------------------------------------------------
(* Scheduled runs: the program is one sequential process, which takes its  *)
(* next step whenever it has one.                                          *)

MaxRunSegs == 1     \* segments in an input file of the scheduled runs

RECURSIVE RunFiles(_)
RunFiles(n) ==
    IF n = 0 THEN {<< >>}
    ELSE LET shorter == RunFiles(n - 1)
         IN  shorter \cup {f \o s : f \in shorter,
                                    s \in Segments \cup {<<97, 95, 115, 120, SP>>}}   \* "a_sx "

FairInit ==
    \E bytes \in RunFiles(MaxRunSegs) :
        \/ \E ch \in Channels, m \in {-1, 1} :
               Start("single", ch, m, 0, 0, bytes)
        \/ \E m \in {-1, 1}, x \in {-1, 2} :
               Start("all", 0, 0, m, x, bytes)

FairSpec == FairInit /\ [][Next]_vars /\ WF_vars(Next)


-----------------------------------------------------------------------------
(* Decoder runs: one waveform frame whose body is up to MaxPkts complete   *)
(* packets of 0..MaxSamples samples, followed by one of the tails.         *)

\* The complete packets as (channel, samples); the channel alternates.
Shapes == {[ch |-> 1 + (n % 2), vals |-> Ramp(1 + (n % 2), n)] : n \in 0..MaxSamples}

RECURSIVE ShapeLists(_)
ShapeLists(n) ==
    IF n = 0 THEN {<< >>}
    ELSE LET shorter == ShapeLists(n - 1)
         IN  shorter \cup {Append(l, p) : l \in shorter, p \in Shapes}

WireAll(l) == Concat([i \in 1..Len(l) |-> Wire(l[i].ch, l[i].vals)])

Tails == {
    << >>,
    <<1, 2, 3, 4, 5>>,                              \* no room for a header
    Cut,
    PacketHeader(1, <<255, 255, 255, 127>>),        \* 2^31 - 1 samples declared
    PacketHeader(1, <<255, 255, 255, 255>>),        \* 2^32 - 1 samples declared
    Wrap,
    Wrap1
}

DecodeInit ==
    \E l \in ShapeLists(MaxPkts), t \in Tails :
        \/ Start("single", 1, -1, 0, 0, Frame(WfTopic, WireAll(l) \o t))
        \/ Start("all", 0, 0, -1, -1, Frame(WfTopic, WireAll(l) \o t))

DecodeSpec == DecodeInit /\ [][Next]_vars

-----------------------------------------------------------------------------
(* Header runs: tokens and headers of every shape around one frame.        *)

Tokens == {
    Junk \o <<SP>>,                                            \* "junk "
    Frame(<<109, 111, 114, 101>>, <<1, 32, 95, 115, 5>>),      \* "more_s5 " and 5 bytes
    Frame(<<102, 111, 111, 95, 115, 95, 100, 97, 116, 97>>,
          <<9, 8, 7, 6, 5>>),                                  \* "foo_s_data_s5 " and 5 bytes
    Frame(WfTopic, PA),
    Frame(WfTopic, << >>),                                     \* a body of 0 bytes
    <<120>> \o WfTopic \o <<95, 115, 49, 56, SP>> \o PB,       \* "xdata_abcd_waveforms_s18 "
    <<97, 95, 115, SP>>,                                       \* "a_s "
    <<97, 95, 115, 120, SP>>,                                  \* "a_sx "
    <<97, 95, 115, 45, 49, SP>>,                               \* "a_s-1 "
    <<97, 95, 115, 57, 57, 57, 57, 57, 57, 57, 57, 57, 57, 57, SP>>,  \* "a_s99999999999 "
    <<97, 95, 115, 53, 120, SP>> \o <<9, 8, 7, 6, 5>>,         \* "a_s5x " and 5 bytes
    <<97, 95, 115, 43, 53, SP>> \o <<9, 8, 7, 6, 5>>           \* "a_s+5 " and 5 bytes
}

RECURSIVE TokenFiles(_)
TokenFiles(n) ==
    IF n = 0 THEN {<< >>}
    ELSE LET shorter == TokenFiles(n - 1)
         IN  shorter \cup {f \o s : f \in shorter, s \in Tokens}

HeaderInit ==
    \E bytes \in TokenFiles(MaxSegs) :
        \/ Start("single", 1, -1, 0, 0, bytes)
        \/ Start("all", 0, 0, -1, -1, bytes)

HeaderSpec == HeaderInit /\ [][Next]_vars

-----------------------------------------------------------------------------
(* Properties.  The wire format is restated here from the byte offsets,    *)
(* apart from the operators of the decoder.                                *)

\* The declared sample count of the packet at offset at of b, while it is
\* below 2^31, and whether it is 2^31 or more.
DeclaredCount(b, at) ==
    b[at + 10] + 256 * b[at + 11] + 65536 * b[at + 12] + 16777216 * (b[at + 13] % 128)
DeclaredHuge(b, at) == b[at + 13] >= 128

\* Raw sample i (from 1) of the packet at offset at of b.
RawSample(b, at, i) == b[at + 14 + 2 * i - 1] + 256 * b[at + 14 + 2 * i]

\* The samples to export for the packet at offset at: all but the last 4
\* raw samples, or all of them when there are fewer than 4.
WantedSamples(b, at) ==
    LET n == DeclaredCount(b, at)
    IN  [i \in 1..(IF n >= 4 THEN n - 4 ELSE n) |-> RawSample(b, at, i)]

EndsWith(text, row) ==
    /\ Len(text) >= Len(row)
    /\ SubSeq(text, Len(text) - Len(row) + 1, Len(text)) = row

\* The file the last decoded packet was written to, when it was written.
LastWritten ==
    LET ch == last.packet.channel
    IN  IF mode = "single" /\ ch = channel_id THEN <<out>>
        ELSE IF mode = "all" /\ ch # exclude_channel /\ max_per_channel <= 0
        THEN <<outputs[ch]>>
        ELSE << >>

\* C3: every successfully decoded packet carries, and exports, the first
\* sample_count - 4 raw samples in order when sample_count >= 4 and all
\* its raw samples when sample_count < 4.
C3_TrimmedSamples ==
    last.ret = "true" =>
        LET want == WantedSamples(last.buffer, last.before)
        IN  /\ last.packet.samples = want
            /\ \A i \in DOMAIN LastWritten :
                   EndsWith(LastWritten[i], write_samples_csv(want))

\* C3 witness: a packet of 4 samples was decoded to no sample and written
\* as an empty row, after a packet of 3 samples that kept all three.
C3_Witness ==
    /\ last.ret = "true"
    /\ mode = "single"
    /\ Len(decoded) = 2
    /\ decoded[1].sample_count.low = 3 /\ Len(decoded[1].samples) = 3
    /\ decoded[2].sample_count.low = 4 /\ decoded[2].samples = << >>
    /\ decoded[2].channel = channel_id
    /\ EndsWith(out, <<10>>)

\* The body b from offset at on as the packets it is made of: ok says
\* that it is complete packets only, pkts lists them in wire order.
RECURSIVE PacketsOf(_, _)
PacketsOf(b, at) ==
    IF at = Len(b) THEN [ok |-> TRUE, pkts |-> << >>]
    ELSE IF Len(b) - at < 14 \/ DeclaredHuge(b, at)
              \/ DeclaredCount(b, at) > (Len(b) - at - 14) \div 2
    THEN [ok |-> FALSE, pkts |-> << >>]
    ELSE LET rest == PacketsOf(b, at + 14 + 2 * DeclaredCount(b, at))
         IN  [ok   |-> rest.ok,
              pkts |-> <<[channel |-> b[at + 9], samples |-> WantedSamples(b, at)]>>
                       \o rest.pkts]

FrameBody == SubSeq(input, frame.start + 1, frame.start + frame.size)

\* The packets decoded since the last frame's body was read.
FrameDecoded ==
    [i \in 1..(Len(decoded) - frame.base) |->
        [channel |-> decoded[frame.base + i].channel,
         samples |-> decoded[frame.base + i].samples]]

\* A waveform frame has been demultiplexed to the end of its loop.
FrameDemuxed ==
    /\ frame.seen
    /\ find_at_0(frame.topic)
    /\ pc = "scan" \/ (pc = "done" /\ exit = "eof")

\* C4: a waveform body that is K complete packets and nothing else yields
\* exactly those K packets, in wire order, and the loop ends with pos at
\* the length of the body.
C4_DemuxYieldsAll ==
    (FrameDemuxed /\ PacketsOf(FrameBody, 0).ok) =>
        /\ FrameDecoded = PacketsOf(FrameBody, 0).pkts
        /\ frame.size > 0 =>
               /\ last.ret = "true"
               /\ last.after = frame.size
               /\ last.buffer = FrameBody

\* C4 witness: a body of two complete packets of different channels has
\* been demultiplexed.
C4_Witness ==
    /\ FrameDemuxed
    /\ PacketsOf(FrameBody, 0).ok
    /\ Len(FrameDecoded) = 2
    /\ FrameDecoded[1].channel # FrameDecoded[2].channel
    /\ Len(FrameDecoded[2].samples) = 0

\* The buffer of the last call holds fewer than 14 + 2 * sample_count
\* bytes from the packet's start.
LastTooShort ==
    \/ last.size - last.before < 14
    \/ DeclaredHuge(last.buffer, last.before)
    \/ DeclaredCount(last.buffer, last.before) > (last.size - last.before - 14) \div 2

\* C5: a packet is rejected whenever the buffer holds fewer than
\* 14 + 2 * sample_count bytes from its start, for every 32-bit
\* sample_count, so that no decode reads beyond the buffer.
C5_ShortRejected ==
    (last.ret # "none" /\ LastTooShort) => last.ret = "false"

\* C10 as stated: whenever read_waveform_packet returns false, pos is what
\* it was before the call.
C10_PosKeptOnFailure ==
    last.ret = "false" => last.after = last.before

\* C10 amended: when read_waveform_packet returns false because the
\* 14-byte header does not fit, pos is what it was before the call; when it
\* returns false because the sample array does not fit, pos is 14 more.
C10_PosOnFailure ==
    last.ret = "false" =>
        IF last.before + 14 > last.size
        THEN last.after = last.before
        ELSE /\ last.after = last.before + 14
             /\ LastTooShort

\* C10 witness: a call failed on the sample array of a second packet.
C10_Witness ==
    /\ last.ret = "false"
    /\ last.before > 0
    /\ last.before + 14 <= last.size
    /\ last.after = last.before + 14

-----------------------------------------------------------------------------
(* Properties of the run                                                   *)

\* The rows of an output file: its newline characters.
Rows(text) == Cardinality({i \in DOMAIN text : text[i] = 10})

\* The offset of the first space of bytes after offset i, 0 when none.
FirstSpace(bytes, i) ==
    LET S == {k \in (i + 1)..Len(bytes) : bytes[k] = SP}
    IN  IF S = {} THEN 0 ELSE CHOOSE k \in S : \A j \in S : k <= j

\* The packets of channel ch that the demultiplexing of body b decodes
\* from offset at on: n counts them, lost says that the body holds a
\* packet on which the process is terminated.
RECURSIVE BodyCount(_, _, _)
BodyCount(b, at, ch) ==
    IF at >= Len(b) \/ Len(b) - at < 14
       \/ DeclaredCount(b, at) > (Len(b) - at - 14) \div 2
    THEN [n |-> 0, lost |-> FALSE]
    ELSE IF DeclaredHuge(b, at)
    THEN [n |-> 0, lost |-> TRUE]
    ELSE LET rest == BodyCount(b, at + 14 + 2 * DeclaredCount(b, at), ch)
         IN  [n    |-> rest.n + (IF b[at + 9] = ch THEN 1 ELSE 0),
              lost |-> rest.lost]

\* The packets of channel ch that a scan of the file from offset i on, with
\* no limit, decodes: those of the waveform frames up to the end of the
\* file, or up to the place where the process is terminated.
RECURSIVE FileCount(_, _, _)
FileCount(bytes, i, ch) ==
    LET k    == FirstSpace(bytes, i)
        t    == SubSeq(bytes, i + 1, k - 1)
        size == stoi(substr(t, rfind_s(t) + 2))
        body == SubSeq(bytes, k + 1, k + size.value)
        c    == IF find_at_0(t) THEN BodyCount(body, 0, ch)
                ELSE [n |-> 0, lost |-> FALSE]
    IN  IF k = 0 THEN 0
        ELSE IF rfind_s(t) = NPOS THEN FileCount(bytes, k, ch)
        ELSE IF size.kind # "ok" \/ size.value < 0 \/ size.value > Len(bytes) - k THEN 0
        ELSE IF c.lost THEN c.n
        ELSE c.n + FileCount(bytes, k + size.value, ch)

\* C1: in single mode with a limit M > 0 the rows written never exceed M;
\* when the run has ended they are min(M, packets of channel_id that the
\* scan of the file decodes); and as soon as M rows are written the run is
\* at its summary and takes no further step.
C1_LimitedRows ==
    (mode = "single" /\ max_waveforms > 0) =>
        /\ Rows(out) <= max_waveforms
        /\ pc \in {"done", "abort"} =>
               Rows(out) = Min2(max_waveforms, FileCount(input, 0, channel_id))
        /\ Rows(out) = max_waveforms =>
               /\ pc = "done"
               /\ exit = "limit"
               /\ ~ENABLED Next

\* C1 witness: the run stopped at its limit with a further packet of the
\* channel left in the same body and further frames left in the file.
C1_Witness ==
    /\ mode = "single"
    /\ exit = "limit"
    /\ Rows(out) = max_waveforms
    /\ BodyCount(buffer, pos, channel_id).n > 0
    /\ FileCount(input, inPos, channel_id) > 0

\* The rows of the decoded packets of channel c from index i on, the first
\* left of them only (left < 0: all of them).
RECURSIVE RowsOf(_, _, _)
RowsOf(i, c, left) ==
    IF i > Len(decoded) \/ left = 0 THEN << >>
    ELSE IF decoded[i].channel = c
    THEN write_samples_csv(decoded[i].samples)
         \o RowsOf(i + 1, c, IF left > 0 THEN left - 1 ELSE left)
    ELSE RowsOf(i + 1, c, left)

\* C2: in all mode no sink exists for exclude_channel, the sinks are those
\* of the other channels decoded so far, and each sink holds the rows of
\* the packets of its own channel, in order (up to the cap), and nothing else.
C2_Routing ==
    mode = "all" =>
        /\ exclude_channel \notin DOMAIN outputs
        /\ exclude_channel \notin DOMAIN counts
        /\ DOMAIN outputs = {decoded[i].channel : i \in DOMAIN decoded} \ {exclude_channel}
        /\ DOMAIN counts = DOMAIN outputs
        /\ \A c \in DOMAIN outputs :
               outputs[c] = RowsOf(1, c, IF max_per_channel > 0 THEN max_per_channel ELSE -1)

\* C2 witness: packets of the excluded channel 2 and of channel 1 were
\* decoded, and channel 1 has its rows.
C2_Witness ==
    /\ mode = "all"
    /\ exclude_channel = 2
    /\ pc = "done"
    /\ \E i, j \in DOMAIN decoded :
           i < j /\ decoded[i].channel = 2 /\ decoded[j].channel = 1
    /\ Rows(outputs[1]) >= 2

\* The text after the last "_s" of topic t.
SizeText(t) == SubSeq(t, Max({i \in 1..(Len(t) - 1) : t[i] = 95 /\ t[i + 1] = 115}) + 2, Len(t))

\* The value of a text of decimal digits.
RECURSIVE DigitsValue(_)
DigitsValue(d) ==
    IF d = << >> THEN 0
    ELSE 10 * DigitsValue(SubSeq(d, 1, Len(d) - 1)) + (d[Len(d)] - 48)

\* Topic t ends in "_s" and 1 to 9 decimal digits.
WellFormedHeader(t) ==
    /\ \E i \in 1..(Len(t) - 1) : t[i] = 95 /\ t[i + 1] = 115
    /\ Len(SizeText(t)) \in 1..9
    /\ \A i \in DOMAIN SizeText(t) : SizeText(t)[i] \in 48..57

\* The separator of a well-formed header is about to be read.
AtHeader ==
    /\ pc = "scan"
    /\ CanGet
    /\ input[inPos + 1] = SP
    /\ WellFormedHeader(topic)

Declared == DigitsValue(SizeText(topic))

\* C6: reading the separator of a well-formed header whose body is in the
\* file takes exactly the declared number of bytes as the body; the
\* demultiplexing takes no byte of the file; and whenever the scan resumes,
\* with an empty topic, it is at the byte that follows the body.
C6_FrameConsumed ==
    [][
        /\ (AtHeader /\ Declared <= Len(input) - (inPos + 1)) =>
               /\ inPos' = inPos + 1 + Declared
               /\ frame'.start = inPos + 1 /\ frame'.size = Declared
               /\ pc' \in {"scan", "demux"}
               /\ pc' = "demux" => buffer' = SubSeq(input, inPos + 2, inPos + 1 + Declared)
               /\ pc' = "scan" => topic' = << >>
        /\ pc = "demux" =>
               /\ inPos' = inPos
               /\ inPos = frame.start + frame.size
               /\ buffer = FrameBody
               /\ pc' = "scan" => topic' = << >>
    ]_vars

\* C6 witness: after a body whose decoding failed, the next topic is being
\* accumulated from the byte that follows the body.
C6_Witness ==
    /\ frame.seen
    /\ last.ret = "false"
    /\ last.buffer = FrameBody
    /\ pc = "scan"
    /\ Len(topic) > 0
    /\ topic = SubSeq(input, frame.start + frame.size + 1, inPos)

\* Text s is a decimal integer that is not negative and fits an int.
ParseableSize(s) ==
    /\ Len(s) > 0
    /\ \A i \in DOMAIN s : s[i] \in 48..57
    /\ ~StoiDigits(s, 1, 0, 0, FALSE).over

\* C7: when the text after the last "_s" of a space-terminated topic is
\* not a decimal integer that fits, the topic is discarded and the scan
\* goes on at the next byte; the run is not terminated.
C7_BadSizeDiscarded ==
    [][
        (/\ pc = "scan"
         /\ CanGet
         /\ input[inPos + 1] = SP
         /\ rfind_s(topic) # NPOS
         /\ ~ParseableSize(SizeText(topic))) =>
            /\ pc' = "scan"
            /\ topic' = << >>
            /\ inPos' = inPos + 1
            /\ sinks' = sinks
    ]_vars

\* C8: when the file ends before the declared body, reading the separator
\* writes and decodes nothing and leaves nothing to read; the next step is
\* the end of the run at its summary, again with the rows and counts as
\* they were.
C8_TruncatedFrame ==
    [][
        /\ (AtHeader /\ Declared > Len(input) - (inPos + 1)) =>
               /\ sinks' = sinks
               /\ decoded' = decoded
               /\ pc' = "scan"
               /\ topic' = << >>
               /\ inPos' = Len(input)
        /\ (pc = "scan" /\ ~CanGet) =>
               /\ sinks' = sinks
               /\ decoded' = decoded
               /\ pc' = "done"
               /\ exit' = "eof"
    ]_vars

\* C8 witness: the run ended at its summary after a frame that was fully
\* processed and exported, the file's last bytes having been taken by a
\* body read that failed.
C8_Witness ==
    /\ mode = "single"
    /\ pc = "done"
    /\ exit = "eof"
    /\ topic = << >>
    /\ frame.seen
    /\ frame.start + frame.size < Len(input)
    /\ FirstSpace(input, frame.start + frame.size) > 0
    /\ WellFormedHeader(SubSeq(input, frame.start + frame.size + 1,
                               FirstSpace(input, frame.start + frame.size) - 1))
    /\ Rows(out) = 1

\* The packet at offset at of body b is cut short: no room for its header,
\* or fewer sample bytes than it declares.
PacketCut(b, at) ==
    \/ Len(b) - at < 14
    \/ DeclaredHuge(b, at)
    \/ DeclaredCount(b, at) > (Len(b) - at - 14) \div 2

\* C9: when the packet at pos is cut short, the pass of the loop writes
\* nothing, keeps what was exported, abandons the rest of the body and
\* returns to the scan at the byte after the body.
C9_CutPacketAbandoned ==
    [][
        (pc = "demux" /\ PacketCut(buffer, pos)) =>
            /\ sinks' = sinks
            /\ pc' = "scan"
            /\ topic' = << >>
            /\ inPos' = inPos
    ]_vars

\* Topic t begins with the characters of "data_abcd_waveforms".
WaveformPrefix(t) ==
    /\ Len(t) >= 19
    /\ \A i \in 1..19 : t[i] = WfTopic[i]

\* C11: the separator step of a well-formed header whose topic does not
\* begin with data_abcd_waveforms, with the body in the file, takes the
\* declared bytes and goes on scanning with no decoder call, no row, no
\* counter change and no new sink; a body is demultiplexed, and packets
\* are decoded and sinks changed, only under a topic with that prefix.
C11_OtherTopicsSkipped ==
    [][
        /\ (AtHeader /\ Declared <= Len(input) - (inPos + 1) /\ ~WaveformPrefix(topic)) =>
               /\ inPos' = inPos + 1 + Declared
               /\ pc' = "scan"
               /\ topic' = << >>
               /\ sinks' = sinks
               /\ outOpen' = outOpen
               /\ last' = last
               /\ decoded' = decoded
        /\ pc' = "demux" => WaveformPrefix(topic')
        /\ (last' # last \/ sinks' # sinks) =>
               /\ pc = "demux"
               /\ WaveformPrefix(topic)
               /\ WaveformPrefix(frame.topic)
    ]_vars

\* C11 witness: the frame "xdata_abcd_waveforms_s18", whose body is one
\* complete packet, has been skipped whole with nothing decoded or
\* written, and the scan has gone on to the following token.
C11_Witness ==
    /\ frame.seen
    /\ ~WaveformPrefix(frame.topic)
    /\ find_anywhere(frame.topic)
    /\ PacketsOf(FrameBody, 0).ok
    /\ Len(PacketsOf(FrameBody, 0).pkts) = 1
    /\ pc = "scan"
    /\ inPos > frame.start + frame.size
    /\ decoded = << >>
    /\ last = NoCall
    /\ out = << >>
    /\ outputs = << >>

\* The count of channel ch, 0 while it has no sink.
CountOf(ch) == IF ch \in DOMAIN counts THEN counts[ch] ELSE 0

\* C12: in all mode with a cap P > 0 no channel's count, and no file's
\* number of rows, ever exceeds P; a complete packet of a channel that is
\* at P changes no sink and no count and the run goes on; and every other
\* complete packet of a channel that is not excluded (all of them when
\* the cap is <= 0) adds its row and 1 to its channel's count and leaves
\* the other channels as they were.
C12_ChannelCap ==
    [][
        mode = "all" =>
            /\ max_per_channel > 0 =>
                   \A c \in DOMAIN counts' :
                       /\ counts'[c] <= max_per_channel
                       /\ Rows(outputs'[c]) <= max_per_channel
            /\ (pc = "demux" /\ ~PacketCut(buffer, pos) /\ buffer[pos + 9] # exclude_channel) =>
                   LET ch == buffer[pos + 9]
                   IN  IF max_per_channel > 0 /\ CountOf(ch) >= max_per_channel
                       THEN /\ counts' = counts
                            /\ outputs' = outputs
                            /\ outOpen' = outOpen
                            /\ pc' \in {"demux", "scan"}
                            /\ exit' = exit
                       ELSE /\ counts'[ch] = CountOf(ch) + 1
                            /\ outputs'[ch] =
                                   (IF ch \in DOMAIN outputs THEN outputs[ch] ELSE << >>)
                                   \o write_samples_csv(WantedSamples(buffer, pos))
                            /\ \A c \in DOMAIN counts \ {ch} :
                                   counts'[c] = counts[c] /\ outputs'[c] = outputs[c]
                            /\ pc' \in {"demux", "scan"}
    ]_vars

\* C12 witness: with a cap of 1, two packets of channel 1 were decoded, the
\* second was dropped, and a later packet of channel 2 got its sink and row.
C12_Witness ==
    /\ mode = "all"
    /\ max_per_channel = 1
    /\ exclude_channel = -1
    /\ Len(decoded) >= 3
    /\ decoded[1].channel = 1
    /\ decoded[2].channel = 1
    /\ decoded[Len(decoded)].channel = 2
    /\ DOMAIN counts = {1, 2}
    /\ counts[1] = 1
    /\ counts[2] = 1
    /\ Rows(outputs[1]) = 1

\* The 1-based places where "_s" starts in topic t.
SizeMarks(t) == {i \in 1..(Len(t) - 1) : t[i] = 95 /\ t[i + 1] = 115}

\* The text that follows the "_s" at place i of t is 1 to 9 decimal digits.
DigitsAfter(t, i) ==
    /\ Len(t) - (i + 1) \in 1..9
    /\ \A k \in (i + 2)..Len(t) : t[k] \in 48..57

\* C13: at a separator, a topic without "_s" is discarded with no frame:
\* the scan goes on at the next byte with an empty topic and nothing read,
\* decoded or written; a topic whose last "_s" is followed by digits only
\* declares the value of those digits, whatever "_s" it holds before, and
\* with the body in the file exactly that many bytes are taken as the
\* body and the run goes on without failure.
C13_SizeAfterLastMark ==
    [][
        (pc = "scan" /\ CanGet /\ input[inPos + 1] = SP) =>
            /\ SizeMarks(topic) = {} =>
                   /\ inPos' = inPos + 1
                   /\ pc' = "scan"
                   /\ topic' = << >>
                   /\ frame' = frame
                   /\ sinks' = sinks
                   /\ decoded' = decoded
                   /\ exit' = exit
            /\ \A i \in SizeMarks(topic) :
                   ((\A j \in SizeMarks(topic) : j <= i) /\ DigitsAfter(topic, i)) =>
                       LET size == DigitsValue(SubSeq(topic, i + 2, Len(topic)))
                       IN  size <= Len(input) - (inPos + 1) =>
                               /\ inPos' = inPos + 1 + size
                               /\ frame'.start = inPos + 1
                               /\ frame'.size = size
                               /\ frame'.topic = topic
                               /\ pc' \in {"scan", "demux"}
                               /\ exit' = exit
    ]_vars

\* C13 witness: the file began with "junk ", which left no frame; then
\* "foo_s_data_s5 " was read as a frame of 5 bytes and the scan is at the
\* byte after them with an empty topic.
C13_Witness ==
    /\ Len(input) > 5
    /\ SubSeq(input, 1, 5) = Junk \o <<SP>>
    /\ frame.seen
    /\ frame.topic = <<102, 111, 111, 95, 115, 95, 100, 97, 116, 97, 95, 115, 53>>
    /\ Cardinality(SizeMarks(frame.topic)) = 2
    /\ frame.start = 5 + Len(frame.topic) + 1
    /\ frame.size = 5
    /\ inPos = frame.start + 5
    /\ pc = "scan"
    /\ topic = << >>
    /\ exit = "none"

\* C14: whenever the run has ended, by its summary after the end of the
\* file, after a truncated last frame or at the single-channel limit, or
\* by a failure raised while a header is parsed or a body decoded, the
\* input stream and every output stream that was opened are closed.
C14_StreamsReleased ==
    pc \in {"done", "abort"} => (~inOpen /\ outOpen = {})

\* The packets of channel c decoded so far.
DecodedOf(c) == Cardinality({i \in DOMAIN decoded : decoded[i].channel = c})

\* C15: all mode never leaves its loop by a limit: it reaches its summary
\* only at the end of the file, with every byte taken; when the run has
\* ended every packet that a scan of the whole file decodes has been
\* decoded, whatever the cap; and at the summary every channel of the
\* file that is not excluded has its sink with min(cap, its packets) rows,
\* all its packets when there is no cap.
C15_NoGlobalStop ==
    mode = "all" =>
        /\ exit # "limit"
        /\ pc = "done" => (exit = "eof" /\ inPos = Len(input))
        /\ pc \in {"done", "abort"} =>
               \A c \in Channels : DecodedOf(c) = FileCount(input, 0, c)
        /\ pc = "done" =>
               \A c \in Channels \ {exclude_channel} :
                   IF FileCount(input, 0, c) = 0 THEN c \notin DOMAIN counts
                   ELSE /\ c \in DOMAIN counts
                        /\ counts[c] = IF max_per_channel > 0
                                       THEN Min2(max_per_channel, FileCount(input, 0, c))
                                       ELSE FileCount(input, 0, c)
                        /\ Rows(outputs[c]) = counts[c]

\* C15 witness: with a cap of 1, channel 1, the only channel seen in the
\* first frame, was at its cap when a later frame brought further packets
\* of channel 1 and the first packet of channel 2, which got its sink and
\* its row; the run ended at the end of the file.
C15_Witness ==
    /\ mode = "all"
    /\ max_per_channel = 1
    /\ pc = "done"
    /\ frame.base >= 1
    /\ \A i \in 1..frame.base : decoded[i].channel = 1
    /\ \E i, j \in (frame.base + 1)..Len(decoded) :
           decoded[i].channel = 1 /\ decoded[j].channel = 2
    /\ DOMAIN counts = {1, 2}
    /\ counts[1] = 1
    /\ Rows(outputs[2]) = 1

\* C16: every successful read_waveform_packet call leaves pos at its old
\* value plus 14 + 2 * sample_count, the count declared on the wire and
\* not the number of samples kept; the packet's fields are the 8 bytes at
\* the old pos, the byte after them, the 4 bytes after that as the count,
\* the next byte, and then the samples from the 15th byte on.
C16_PosAdvance ==
    last.ret = "true" =>
        LET b  == last.buffer
            at == last.before
            n  == DeclaredCount(b, at)
        IN  /\ last.after = at + 14 + 2 * n
            /\ last.after <= last.size
            /\ last.packet.timestamp = [i \in 1..8 |-> b[at + i]]
            /\ last.packet.channel = b[at + 9]
            /\ last.packet.sample_count = [top |-> 0, low |-> n]
            /\ last.packet.gates_count = b[at + 14]
            /\ Len(last.packet.samples) = IF n >= 4 THEN n - 4 ELSE n
            /\ \A i \in DOMAIN last.packet.samples :
                   last.packet.samples[i] = RawSample(b, at, i)

\* C16 witness: the second packet of a body, of 6 declared samples of
\* which 2 are kept, was decoded and pos went from its start to 26 bytes on.
C16_Witness ==
    /\ last.ret = "true"
    /\ last.before > 0
    /\ DeclaredCount(last.buffer, last.before) = 6
    /\ Len(last.packet.samples) = 2
    /\ last.after = last.before + 26
    /\ last.after < last.size

\* The run has ended: it returned after its summary or was terminated.
Ended == pc \in {"done", "abort"}

\* C17: every run ends.  Every pass of the outer loop takes at least one
\* byte of the file or ends the loop, and no step gives a byte back; every
\* pass of the inner loop takes no byte of the file and either leaves the
\* loop or advances pos by at least 14, the pass for a packet of the
\* excluded channel included; once ended the run takes no step.
C17_Terminates ==
    /\ [][
           /\ inPos' >= inPos
           /\ inPos' <= Len(input)
           /\ pc = "scan" => (inPos' > inPos \/ pc' = "done")
           /\ pc = "demux" =>
                  /\ inPos' = inPos
                  /\ pc' = "demux" => (pos' >= pos + 14 /\ pos' < Len(buffer) /\ buffer' = buffer)
           /\ ~Ended
       ]_vars
    /\ <>Ended

\* C17 witness: an all-mode run ended at its summary after a body in which
\* a packet of the excluded channel was passed over and the loop went on to
\* the packet after it.
C17_Witness ==
    /\ mode = "all"
    /\ pc = "done"
    /\ inPos = Len(input)
    /\ \E i \in (frame.base + 1)..(Len(decoded) - 1) :
           decoded[i].channel = exclude_channel /\ decoded[i + 1].channel # exclude_channel

\* Text new is text old with one more row: characters that are not "\n",
\* possibly none, and then one "\n".
OneRowMore(old, new) ==
    /\ Len(new) > Len(old)
    /\ SubSeq(new, 1, Len(old)) = old
    /\ new[Len(new)] = 10
    /\ \A i \in (Len(old) + 1)..(Len(new) - 1) : new[i] # 10

\* Every counter is the number of rows of its file.
CountersAreRows ==
    /\ exported = Rows(out)
    /\ DOMAIN counts = DOMAIN outputs
    /\ \A c \in DOMAIN counts : counts[c] = Rows(outputs[c])

\* C18: in every state of either mode, the summary included, exported is
\* the number of rows of the CSV file and each channel's count the number
\* of rows of that channel's file; no counter ever decreases and no sink
\* disappears; a counter changes only by 1 and together with exactly one
\* row, possibly empty, appended to its file, and a file changes only so.
C18_CountersMatchRows ==
    /\ CountersAreRows
    /\ [][
           /\ CountersAreRows'
           /\ exported' \in {exported, exported + 1}
           /\ IF exported' = exported THEN out' = out ELSE OneRowMore(out, out')
           /\ \A c \in DOMAIN counts :
                  /\ c \in DOMAIN counts'
                  /\ counts'[c] \in {counts[c], counts[c] + 1}
                  /\ IF counts'[c] = counts[c] THEN outputs'[c] = outputs[c]
                     ELSE OneRowMore(outputs[c], outputs'[c])
           /\ \A c \in DOMAIN counts' \ DOMAIN counts :
                  /\ counts'[c] \in {0, 1}
                  /\ counts'[c] = 1 => OneRowMore(<< >>, outputs'[c])
       ]_vars

\* C18 witness: a single-channel run is at its summary with exported = 2
\* and a file of two rows, the first of them empty.
C18_Witness ==
    /\ mode = "single"
    /\ pc = "done"
    /\ exported = 2
    /\ Rows(out) = 2
    /\ out[1] = 10
    /\ Len(out) > 2

\* The rows of the packets of channel ch that the demultiplexing of body b
\* decodes from offset at on, in wire order; lost says that the body holds
\* a packet on which the process is terminated.
RECURSIVE BodyRows(_, _, _)
BodyRows(b, at, ch) ==
    IF at >= Len(b) \/ Len(b) - at < 14
       \/ DeclaredCount(b, at) > (Len(b) - at - 14) \div 2
    THEN [rows |-> << >>, lost |-> FALSE]
    ELSE IF DeclaredHuge(b, at)
    THEN [rows |-> << >>, lost |-> TRUE]
    ELSE LET rest == BodyRows(b, at + 14 + 2 * DeclaredCount(b, at), ch)
         IN  [rows |-> (IF b[at + 9] = ch
                        THEN JoinSamples(WantedSamples(b, at), 1) \o <<10>>
                        ELSE << >>) \o rest.rows,
              lost |-> rest.lost]

\* The rows of channel ch in the file from offset i on: a function of the
\* file and the channel alone, which knows of no mode, sink or counter.
RECURSIVE FileRows(_, _, _)
FileRows(bytes, i, ch) ==
    LET k    == FirstSpace(bytes, i)
        t    == SubSeq(bytes, i + 1, k - 1)
        size == stoi(substr(t, rfind_s(t) + 2))
        body == SubSeq(bytes, k + 1, k + size.value)
        r    == IF find_at_0(t) THEN BodyRows(body, 0, ch)
                ELSE [rows |-> << >>, lost |-> FALSE]
    IN  IF k = 0 THEN << >>
        ELSE IF rfind_s(t) = NPOS THEN FileRows(bytes, k, ch)
        ELSE IF size.kind # "ok" \/ size.value < 0 \/ size.value > Len(bytes) - k THEN << >>
        ELSE IF r.lost THEN r.rows
        ELSE r.rows \o FileRows(bytes, k + size.value, ch)

\* C19: on the same file, a single-channel run for channel c with no limit
\* and an all-channels run with no cap that does not exclude c end with
\* the same rows for c: both with FileRows of the file and c, the all run
\* having no sink for c exactly when these are no rows at all.
C19_ModesAgree ==
    Ended =>
        /\ (mode = "single" /\ max_waveforms <= 0) =>
               out = FileRows(input, 0, channel_id)
        /\ (mode = "all" /\ max_per_channel <= 0) =>
               \A c \in Channels \ {exclude_channel} :
                   IF c \in DOMAIN outputs
                   THEN outputs[c] = FileRows(input, 0, c) /\ outputs[c] # << >>
                   ELSE FileRows(input, 0, c) = << >>

\* C19 witness: an all-channels run with no cap that excludes channel 2
\* ended with three or more rows for channel 1, those of the file, from a
\* file that also holds packets of channel 2.
C19_Witness ==
    /\ mode = "all"
    /\ max_per_channel <= 0
    /\ exclude_channel = 2
    /\ pc = "done"
    /\ 1 \in DOMAIN outputs
    /\ Rows(outputs[1]) >= 3
    /\ outputs[1] = FileRows(input, 0, 1)
    /\ FileRows(input, 0, 2) # << >>

\* Offset k of the file is where a token can start: the start of the file,
\* the byte after a separator that had no body, the byte after the last
\* body that was read, or the end of a file whose last body read failed.
TokenStart(k) ==
    \/ k = 0
    \/ k >= 1 /\ input[k] = SP
    \/ frame.seen /\ k = frame.start + frame.size
    \/ inFail /\ k = Len(input)

\* While the scan is accumulating, topic is exactly the bytes of the file
\* from the start of the current token up to the byte last taken, none of
\* them a space and none from before the end of the last body.
TopicOfToken ==
    pc = "scan" =>
        LET k == inPos - Len(topic)
        IN  /\ k >= 0
            /\ topic = SubSeq(input, k + 1, inPos)
            /\ \A i \in DOMAIN topic : topic[i] # SP
            /\ TokenStart(k)
            /\ frame.seen => k >= frame.start + frame.size

\* C20: topic holds the current token only, from the first state on; and
\* every step that handles a space or ends a body and returns to the scan
\* (no "_s", body read failed, frame of another topic skipped, body fully
\* decoded, body abandoned at a packet that fails) returns with an empty
\* topic, while a byte that is not a space is appended to it.
C20_TopicCleared ==
    /\ TopicOfToken
    /\ [][
           /\ TopicOfToken'
           /\ (pc = "scan" /\ pc' = "scan") =>
                  IF input[inPos + 1] = SP THEN topic' = << >>
                  ELSE topic' = Append(topic, input[inPos + 1])
           /\ (pc = "demux" /\ pc' = "scan") => topic' = << >>
       ]_vars

\* C20 witness: a frame of another topic was skipped, its body read as
\* header text ("_s5") included, and the topic being accumulated after it
\* holds only bytes that follow that body.
C20_Witness ==
    /\ frame.seen
    /\ ~find_at_0(frame.topic)
    /\ frame.size > 0
    /\ \E i \in 1..(frame.size - 1) : FrameBody[i] = 95 /\ FrameBody[i + 1] = 115
    /\ pc = "scan"
    /\ Len(topic) >= 2
    /\ topic = SubSeq(input, frame.start + frame.size + 1, inPos)

====
